---------------------------- MODULE Spec2Model ----------------------------
(***************************************************************************)
(* Transaction normalisation, fingerprinting, running-balance              *)
(* reconstruction and persistence of the bank-statement analyser           *)
(* (src/utils.py, src/db_operations.py).                                   *)
(*                                                                         *)
(* Representation.  A text is a sequence of one-character strings, so that *)
(* strip(), lower() and string concatenation are computed, not assumed.    *)
(* A number is an integer count of thousandths (4.50 is 4500), so that the *)
(* two-decimal formatting of the hasher and the DECIMAL(18,2) columns of   *)
(* the Transactions table both round.  A cell of a DataFrame is a tagged   *)
(* record; NA stands for None / NaN / NaT, the values pd.notna rejects.    *)
(***************************************************************************)
EXTENDS Integers, Sequences, FiniteSets, TLC

VARIABLES
    pc,         \* position of the current ingestion call
    uid,        \* UserID of the logged-in user of the current call
    response,   \* the parsed JSON array handed to convert_gemini_response_to_dataframe
    df,         \* the DataFrame travelling through the pipeline
    pre,        \* the DataFrame as it entered calculate_running_credit
    existing,   \* get_user_transactions(uid), normalised and re-hashed
    to_insert,  \* rows handed to bulk_insert_transactions
    skipped,    \* number of duplicates skipped in the current call
    db,         \* the Transactions table: a sequence of rows, in insertion order
    ledger,     \* per row of db, the fingerprint computed when it was ingested
    pdf_texts,  \* the documents of the current call, each with the service's answer to it
    client,     \* the extraction client: "none", "ok" or "failed"
    given,      \* the DataFrame object apply_data_types was called with, as the call left it
    users,      \* the Users table: a sequence of rows, in insertion order
    identity,   \* the last value the IDENTITY(1,1) column of Users gave out
    returned    \* the last call of upsert_google_user and what it returned

vars ==
    <<pc, uid, response, df, pre, existing, to_insert, skipped, db, ledger,
      pdf_texts, client, given, users, identity, returned>>

-----------------------------------------------------------------------------
(* Cells *)

NA == [t |-> "na"]
Str(s) == [t |-> "str", v |-> s]
Num(n) == [t |-> "num", v |-> n]
Whole(n) == [t |-> "int", v |-> n]
Bool(b) == [t |-> "bool", v |-> b]
Ts(y, m, d) == [t |-> "ts", v |-> <<y, m, d>>]

notna(x) == x.t # "na"

-----------------------------------------------------------------------------
(* Text *)

Whitespace == {" ", "\t", "\n"}

UpperCase == <<"A", "B", "C", "D", "E", "F", "G", "H", "I", "J", "K", "L", "M",
               "N", "O", "P", "Q", "R", "S", "T", "U", "V", "W", "X", "Y", "Z">>

LowerCase == <<"a", "b", "c", "d", "e", "f", "g", "h", "i", "j", "k", "l", "m",
               "n", "o", "p", "q", "r", "s", "t", "u", "v", "w", "x", "y", "z">>

Digits == <<"0", "1", "2", "3", "4", "5", "6", "7", "8", "9">>

LowerChar(c) ==
    IF \E i \in 1..Len(UpperCase) : UpperCase[i] = c
    THEN LowerCase[CHOOSE i \in 1..Len(UpperCase) : UpperCase[i] = c]
    ELSE c

lower(s) == [i \in 1..Len(s) |-> LowerChar(s[i])]

RECURSIVE lstrip(_)
lstrip(s) ==
    IF s # <<>> /\ Head(s) \in Whitespace THEN lstrip(Tail(s)) ELSE s

RECURSIVE rstrip(_)
rstrip(s) ==
    IF s # <<>> /\ s[Len(s)] \in Whitespace
    THEN rstrip(SubSeq(s, 1, Len(s) - 1))
    ELSE s

strip(s) == rstrip(lstrip(s))

IsDigit(c) == \E i \in 1..10 : Digits[i] = c

DigitVal(c) == (CHOOSE i \in 1..10 : Digits[i] = c) - 1

RECURSIVE NatStr(_)
NatStr(n) ==
    IF n < 10 THEN <<Digits[n + 1]>>
    ELSE NatStr(n \div 10) \o <<Digits[(n % 10) + 1]>>

RECURSIVE ZeroPad(_, _)
ZeroPad(s, width) == IF Len(s) < width THEN ZeroPad(<<"0">> \o s, width) ELSE s

RECURSIVE DigitsVal(_)
DigitsVal(s) ==
    IF s = <<>> THEN 0
    ELSE 10 * DigitsVal(SubSeq(s, 1, Len(s) - 1)) + DigitVal(s[Len(s)])

AllDigits(s) == s # <<>> /\ \A i \in 1..Len(s) : IsDigit(s[i])

Abs(n) == IF n < 0 THEN -n ELSE n

-----------------------------------------------------------------------------
(* Calendar *)

IsLeap(y) == (y % 4 = 0 /\ y % 100 # 0) \/ y % 400 = 0

DaysIn(y, m) ==
    IF m = 2 THEN (IF IsLeap(y) THEN 29 ELSE 28)
    ELSE IF m \in {4, 6, 9, 11} THEN 30 ELSE 31

ValidDate(y, m, d) == m \in 1..12 /\ d >= 1 /\ d <= DaysIn(y, m)

MonthNames ==
    <<<<"J", "a", "n", "u", "a", "r", "y">>,
      <<"F", "e", "b", "r", "u", "a", "r", "y">>,
      <<"M", "a", "r", "c", "h">>,
      <<"A", "p", "r", "i", "l">>,
      <<"M", "a", "y">>,
      <<"J", "u", "n", "e">>,
      <<"J", "u", "l", "y">>,
      <<"A", "u", "g", "u", "s", "t">>,
      <<"S", "e", "p", "t", "e", "m", "b", "e", "r">>,
      <<"O", "c", "t", "o", "b", "e", "r">>,
      <<"N", "o", "v", "e", "m", "b", "e", "r">>,
      <<"D", "e", "c", "e", "m", "b", "e", "r">>>>

DayNames ==
    <<<<"S", "u", "n", "d", "a", "y">>,
      <<"M", "o", "n", "d", "a", "y">>,
      <<"T", "u", "e", "s", "d", "a", "y">>,
      <<"W", "e", "d", "n", "e", "s", "d", "a", "y">>,
      <<"T", "h", "u", "r", "s", "d", "a", "y">>,
      <<"F", "r", "i", "d", "a", "y">>,
      <<"S", "a", "t", "u", "r", "d", "a", "y">>>>

\* Index into DayNames of the weekday of a Gregorian date.
Weekday(y, m, d) ==
    LET a  == (14 - m) \div 12
        yy == y - a
        mm == m + 12 * a - 2
    IN  ((d + yy + (yy \div 4) - (yy \div 100) + (yy \div 400)
            + ((31 * mm) \div 12)) % 7) + 1

\* str(ts.date()): the ISO form YYYY-MM-DD.
IsoDate(v) ==
    ZeroPad(NatStr(v[1]), 4) \o <<"-">> \o ZeroPad(NatStr(v[2]), 2)
        \o <<"-">> \o ZeroPad(NatStr(v[3]), 2)

\* Timestamps order by (year, month, day).
DateLess(a, b) ==
    \/ a[1] < b[1]
    \/ a[1] = b[1] /\ a[2] < b[2]
    \/ a[1] = b[1] /\ a[2] = b[2] /\ a[3] < b[3]

\* The date text the extraction prompt asks for, MM-DD-YYYY; any other text
\* of the modelled inputs is one pandas cannot read as a date.
ParseDateText(s) ==
    LET u == strip(s) IN
    IF /\ Len(u) = 10
       /\ u[3] = "-" /\ u[6] = "-"
       /\ AllDigits(SubSeq(u, 1, 2))
       /\ AllDigits(SubSeq(u, 4, 5))
       /\ AllDigits(SubSeq(u, 7, 10))
    THEN LET m == DigitsVal(SubSeq(u, 1, 2))
             d == DigitsVal(SubSeq(u, 4, 5))
             y == DigitsVal(SubSeq(u, 7, 10))
         IN  IF ValidDate(y, m, d) THEN Ts(y, m, d) ELSE NA
    ELSE NA

\* pd.to_datetime(x, errors='coerce') on one cell.
to_datetime(x) ==
    CASE x.t = "ts"  -> x
      [] x.t = "str" -> ParseDateText(x.v)
      [] x.t = "na"  -> NA

-----------------------------------------------------------------------------
(* Numbers *)

IndexOf(s, c) ==
    IF \E i \in 1..Len(s) : s[i] = c
    THEN CHOOSE i \in 1..Len(s) : s[i] = c /\ \A j \in 1..(i - 1) : s[j] # c
    ELSE 0

RECURSIVE Pow10(_)
Pow10(k) == IF k = 0 THEN 1 ELSE 10 * Pow10(k - 1)

\* Decimal text with at most three fraction digits, in thousandths.
ParseUnsigned(u) ==
    LET dot == IndexOf(u, ".") IN
    IF dot = 0
    THEN IF AllDigits(u) THEN Num(1000 * DigitsVal(u)) ELSE NA
    ELSE LET ip == SubSeq(u, 1, dot - 1)
             fp == SubSeq(u, dot + 1, Len(u))
         IN  IF AllDigits(ip) /\ AllDigits(fp) /\ Len(fp) <= 3
             THEN Num(1000 * DigitsVal(ip) + DigitsVal(fp) * Pow10(3 - Len(fp)))
             ELSE NA

ParseNumText(s) ==
    LET u == strip(s) IN
    IF u # <<>> /\ Head(u) = "-"
    THEN LET r == ParseUnsigned(Tail(u)) IN
         IF notna(r) THEN Num(-r.v) ELSE NA
    ELSE ParseUnsigned(u)

\* to_numeric with the failures filled with 0 instead of NaN.
to_numeric_zero(x) ==
    CASE x.t = "num" -> x
      [] x.t = "str" -> IF notna(ParseNumText(x.v)) THEN ParseNumText(x.v) ELSE Num(0)
      [] x.t = "na"  -> Num(0)

\* pd.to_numeric(x, errors='coerce') on one cell.
to_numeric(x) ==
    CASE x.t = "num" -> x
      [] x.t = "str" -> ParseNumText(x.v)
      [] x.t = "na"  -> NA

\* Thousandths rounded to hundredths, a tie going to the even hundredth.
RoundHalfEven(a) ==
    LET q == a \div 10
        r == a % 10
    IN  IF r > 5 \/ (r = 5 /\ q % 2 = 1) THEN q + 1 ELSE q

\* f"{x:.2f}": the sign of x is kept even when the digits round to zero.
Fmt2(n) ==
    LET c == RoundHalfEven(Abs(n)) IN
    (IF n < 0 THEN <<"-">> ELSE <<>>)
        \o NatStr(c \div 100) \o <<".">> \o ZeroPad(NatStr(c % 100), 2)

-----------------------------------------------------------------------------
(* DataFrames: a set of column names and a sequence of rows, each row a    *)
(* function from the column names to cells.                                *)

EmptyFrame == [cols |-> {}, rows |-> <<>>]

\* df.empty: no rows or no columns.
Empty(d) == d.rows = <<>> \/ d.cols = {}

\* pd.DataFrame(data): the columns are the keys any object carries, and a key
\* an object lacks is NaN in its row.
DataFrame(data) ==
    LET cs == UNION {DOMAIN data[i] : i \in 1..Len(data)} IN
    [cols |-> cs,
     rows |-> [i \in 1..Len(data) |->
                  [c \in cs |-> IF c \in DOMAIN data[i] THEN data[i][c] ELSE NA]]]

DateCols == {"transaction_date", "posting_date"}
NumCols == {"amount_spent", "credit_limit", "available_credit"}
DerivedCols == {"year", "month", "day", "month_name", "day_of_week"}
HashCols == {"transaction_date", "activity_description", "amount_spent"}

\* The values is_subscription accepts as true, compared after str(x).lower().
TruthyTexts ==
    {<<"t", "r", "u", "e">>, <<"1">>, <<"t">>, <<"y">>, <<"y", "e", "s">>}

\* The one padded field name of the modelled inputs and what str.strip()
\* makes of it; every other modelled name has no surrounding whitespace.
StripName(c) == IF c = " category " THEN "category" ELSE c

\* repr of a float given in thousandths: 4500 is "4.5", 4000 is "4.0".
FracStr(f) ==
    IF f % 100 = 0 THEN NatStr(f \div 100)
    ELSE IF f % 10 = 0 THEN ZeroPad(NatStr(f \div 10), 2)
    ELSE ZeroPad(NatStr(f), 3)

FloatStr(n) ==
    (IF n < 0 THEN <<"-">> ELSE <<>>)
        \o NatStr(Abs(n) \div 1000) \o <<".">> \o FracStr(Abs(n) % 1000)

\* Python's str(x).
PyStr(x) ==
    CASE x.t = "str"  -> x.v
      [] x.t = "md5"  -> x.v
      [] x.t = "na"   -> <<"n", "a", "n">>
      [] x.t = "bool" -> IF x.v THEN <<"T", "r", "u", "e">>
                                ELSE <<"F", "a", "l", "s", "e">>
      [] x.t = "num"  -> FloatStr(x.v)
      [] x.t = "int"  -> (IF x.v < 0 THEN <<"-">> ELSE <<>>) \o NatStr(Abs(x.v))
      [] x.t = "ts"   -> IsoDate(x.v)

\* to_bool with 'true' missing from the accepted list.
to_bool_untrue(x) ==
    Bool(IF notna(x) THEN lower(PyStr(x)) \in (TruthyTexts \ {<<"t", "r", "u", "e">>})
                     ELSE FALSE)

\* lambda x: str(x).lower() in [...] if pd.notna(x) else False
to_bool(x) == Bool(IF notna(x) THEN lower(PyStr(x)) \in TruthyTexts ELSE FALSE)

\* df.columns = df.columns.str.strip()
StripColumns(d) ==
    LET cs == {StripName(c) : c \in d.cols} IN
    [cols |-> cs,
     rows |-> [i \in 1..Len(d.rows) |->
                  [c \in cs |-> d.rows[i][CHOOSE o \in d.cols : StripName(o) = c]]]]

\* df[col] = f(df[col]) for every col of cs the frame has.
MapCols(d, cs, f(_)) ==
    [d EXCEPT !.rows = [i \in 1..Len(d.rows) |->
        [c \in d.cols |-> IF c \in cs THEN f(d.rows[i][c]) ELSE d.rows[i][c]]]]

DerivedValue(c, v) ==
    CASE c = "year"        -> Whole(v[1])
      [] c = "month"       -> Whole(v[2])
      [] c = "day"         -> Whole(v[3])
      [] c = "month_name"  -> Str(MonthNames[v[2]])
      [] c = "day_of_week" -> Str(DayNames[Weekday(v[1], v[2], v[3])])

\* AddDerived over every row, an absent date read as the epoch.
AddDerivedEpoch(d) ==
    LET cs == d.cols \cup DerivedCols IN
    [cols |-> cs,
     rows |-> [i \in 1..Len(d.rows) |->
        LET r == d.rows[i]
            v == IF notna(r["transaction_date"]) THEN r["transaction_date"].v
                 ELSE <<1970, 1, 1>>
        IN  [c \in cs |-> IF c \in DerivedCols THEN DerivedValue(c, v) ELSE r[c]]]]

\* df.loc[valid_dates.index, col] = ...: the rows with a valid date get the
\* calendar fields; the other rows keep what the column held, NaN if new.
AddDerived(d) ==
    LET cs == d.cols \cup DerivedCols IN
    [cols |-> cs,
     rows |-> [i \in 1..Len(d.rows) |->
        LET r == d.rows[i] IN
        [c \in cs |->
            IF c \in DerivedCols
            THEN IF notna(r["transaction_date"])
                 THEN DerivedValue(c, r["transaction_date"].v)
                 ELSE IF c \in d.cols THEN r[c] ELSE NA
            ELSE r[c]]]]

IsText(x) == x.t \in {"str", "md5"}

\* A column has dtype object when it holds text.
ObjectCols(d) == {c \in d.cols : \E i \in 1..Len(d.rows) : IsText(d.rows[i][c])}

\* str_strip with lstrip() in the place of strip().
str_lstrip(x) ==
    IF x.t = "str" THEN Str(lstrip(x.v)) ELSE IF x.t = "md5" THEN x ELSE NA

\* Series.str.strip() on one cell: text is stripped, anything else is NaN.
str_strip(x) ==
    IF x.t = "str" THEN Str(strip(x.v)) ELSE IF x.t = "md5" THEN x ELSE NA

\* Two names that strip to the same name leave the frame with a duplicated
\* column; df[col] is then a DataFrame and df[col].str raises AttributeError.
ApplyRaises(d) ==
    /\ ~Empty(d)
    /\ \E a, b \in d.cols : a # b /\ StripName(a) = StripName(b)

apply_data_types(d) ==
    IF Empty(d) THEN d
    ELSE LET d1 == StripColumns(d)
             d2 == MapCols(d1, DateCols, to_datetime)
             d3 == MapCols(d2, NumCols, to_numeric)
             d4 == MapCols(d3, {"is_subscription"}, to_bool)
             d5 == IF "transaction_date" \in d4.cols THEN AddDerived(d4) ELSE d4
         IN  MapCols(d5, ObjectCols(d5), str_strip)

-----------------------------------------------------------------------------
(* Transaction Hasher *)

\* hashlib.md5(bytes).hexdigest(), idealised as a collision-free digest: the
\* digest of a byte string is determined by, and determines, the string.
Md5(bytes) == [t |-> "md5", v |-> bytes]

\* hash_string without lower(): the description keeps its case.
hash_string_cased(row) ==
    LET date_str   == IF notna(row["transaction_date"])
                      THEN IsoDate(row["transaction_date"].v) ELSE <<>>
        desc_str   == strip(PyStr(row["activity_description"]))
        amount_str == IF notna(row["amount_spent"])
                      THEN Fmt2(row["amount_spent"].v) ELSE <<>>
    IN  date_str \o <<"-">> \o desc_str \o <<"-">> \o amount_str

\* row['transaction_date'].strftime('%Y-%m-%d') if pd.notna(...) else ''
date_str(row) ==
    IF notna(row["transaction_date"])
    THEN IsoDate(row["transaction_date"].v) ELSE <<>>

\* str(row['activity_description']).lower().strip()
desc_str(row) == strip(lower(PyStr(row["activity_description"])))

\* f"{row['amount_spent']:.2f}" if pd.notna(...) else ''
amount_str(row) ==
    IF notna(row["amount_spent"]) THEN Fmt2(row["amount_spent"].v) ELSE <<>>

\* hash_string without the date.
hash_string_undated(row) == <<"-">> \o desc_str(row) \o <<"-">> \o amount_str(row)

\* The string generate_hash digests.
hash_string(row) ==
    date_str(row) \o <<"-">> \o desc_str(row) \o <<"-">> \o amount_str(row)

\* generate_hash digesting the category as well, where the row has one.
generate_hash_category(row) ==
    Md5(hash_string(row) \o <<"-">> \o
        (IF "category" \in DOMAIN row THEN PyStr(row["category"]) ELSE <<>>))

generate_hash(row) == Md5(hash_string(row))

\* row['transaction_date'] and its siblings raise KeyError when the frame has
\* no such column.
HashRaises(d) == ~Empty(d) /\ ~(HashCols \subseteq d.cols)

create_transaction_hash(d) ==
    LET cs == d.cols \cup {"TransactionHash"} IN
    [cols |-> cs,
     rows |-> [i \in 1..Len(d.rows) |->
        [c \in cs |->
            IF c = "TransactionHash"
            THEN IF Empty(d) THEN NA ELSE generate_hash(d.rows[i])
            ELSE d.rows[i][c]]]]

-----------------------------------------------------------------------------
(* Running Balance Reconstructor *)

Perms(n) == {p \in [1..n -> 1..n] : \A i, j \in 1..n : p[i] = p[j] => i = j}

\* No sort at all: the rows stay in input order.
InputOrder(rows) == {[i \in 1..Len(rows) |-> i]}

\* The orders sort_values(by='transaction_date', ascending=True) may return.
\* NaT rows go last in their input order (na_position='last'); the dated rows
\* are ordered by the default kind='quicksort', which is not a stable sort,
\* so rows of equal date may come out in any order.
SortOrders(rows) ==
    {p \in Perms(Len(rows)) :
        \A i, j \in 1..Len(rows) : i < j =>
            LET a == rows[p[i]]["transaction_date"]
                b == rows[p[j]]["transaction_date"]
            IN  \/ notna(a) /\ ~notna(b)
                \/ ~notna(a) /\ ~notna(b) /\ p[i] < p[j]
                \/ notna(a) /\ notna(b) /\ ~DateLess(b.v, a.v)}

\* The rows reordered with the fingerprint column left where it was.
ReorderDetached(rows, p) ==
    [i \in 1..Len(rows) |->
        IF "TransactionHash" \in DOMAIN rows[i]
        THEN [rows[p[i]] EXCEPT !["TransactionHash"] = rows[i]["TransactionHash"]]
        ELSE rows[p[i]]]

\* sort_values(...).reset_index(drop=True): whole rows move.
Reorder(rows, p) == [i \in 1..Len(rows) |-> rows[p[i]]]

\* df['available_credit'].first_valid_index(), 0 standing for None.
first_valid_index(rows) ==
    IF \E i \in 1..Len(rows) : notna(rows[i]["available_credit"])
    THEN CHOOSE i \in 1..Len(rows) :
            /\ notna(rows[i]["available_credit"])
            /\ \A j \in 1..(i - 1) : ~notna(rows[j]["available_credit"])
    ELSE 0

\* Series.cumsum() skips NaN: the running total of the amounts present in
\* rows lo..k.
RECURSIVE SumPresent(_, _, _)
SumPresent(rows, lo, k) ==
    IF k < lo THEN 0
    ELSE SumPresent(rows, lo, k - 1)
            + (IF notna(rows[k]["amount_spent"]) THEN rows[k]["amount_spent"].v ELSE 0)

\* rebalance with the running total taken from the first row of the frame:
\* the rows before the opening balance are rewritten as well.
rebalance_from_top(rows) ==
    LET f == first_valid_index(rows) IN
    IF f = 0 THEN rows
    ELSE [k \in 1..Len(rows) |->
            [rows[k] EXCEPT !["available_credit"] =
                IF notna(rows[k]["amount_spent"])
                THEN Num(rows[f]["available_credit"].v - SumPresent(rows, 1, k))
                ELSE NA]]

\* rebalance without the early return: a missing opening balance counts as 0.
rebalance_from_zero(rows) ==
    LET f == first_valid_index(rows)
        g == IF f = 0 THEN 1 ELSE f
        start == IF f = 0 THEN 0 ELSE rows[f]["available_credit"].v
    IN  [k \in 1..Len(rows) |->
            IF k < g THEN rows[k]
            ELSE [rows[k] EXCEPT !["available_credit"] =
                    IF notna(rows[k]["amount_spent"])
                    THEN Num(start - SumPresent(rows, g, k))
                    ELSE NA]]

\* rebalance with the absent amounts filled with 0 before the running total:
\* a row without amount gets the balance of the row before it.
rebalance_filled(rows) ==
    LET f == first_valid_index(rows) IN
    IF f = 0 THEN rows
    ELSE [k \in 1..Len(rows) |->
            IF k < f THEN rows[k]
            ELSE [rows[k] EXCEPT !["available_credit"] =
                    Num(rows[f]["available_credit"].v - SumPresent(rows, f, k))]]

\* rebalance that keeps the balance a later row came with.
rebalance_keep_snapshots(rows) ==
    LET f == first_valid_index(rows) IN
    IF f = 0 THEN rows
    ELSE [k \in 1..Len(rows) |->
            IF k < f \/ (k > f /\ notna(rows[k]["available_credit"])) THEN rows[k]
            ELSE [rows[k] EXCEPT !["available_credit"] =
                    IF notna(rows[k]["amount_spent"])
                    THEN Num(rows[f]["available_credit"].v - SumPresent(rows, f, k))
                    ELSE NA]]

\* start_credit - cumulative_spend on the (sorted) rows from the first known
\* balance on; a row whose amount is NaN gets a NaN balance.
rebalance(rows) ==
    LET f == first_valid_index(rows) IN
    IF f = 0 THEN rows
    ELSE [k \in 1..Len(rows) |->
            IF k < f THEN rows[k]
            ELSE [rows[k] EXCEPT !["available_credit"] =
                    IF notna(rows[k]["amount_spent"])
                    THEN Num(rows[f]["available_credit"].v - SumPresent(rows, f, k))
                    ELSE NA]]

\* df.sort_values(by='transaction_date') raises KeyError without the column.
CreditRaises(d) ==
    /\ ~Empty(d)
    /\ {"amount_spent", "available_credit"} \subseteq d.cols
    /\ "transaction_date" \notin d.cols

\* The frames calculate_running_credit may return for d.
calculate_running_credit(d) ==
    IF Empty(d) \/ "amount_spent" \notin d.cols \/ "available_credit" \notin d.cols
    THEN {d}
    ELSE {[d EXCEPT !.rows = rebalance(Reorder(d.rows, p))] : p \in SortOrders(d.rows)}

-----------------------------------------------------------------------------
(* Storage: the Transactions table *)

\* The columns of bulk_insert_transactions' list `cols` that the model
\* carries.  customer_id, f_name, l_name, address and sub_category are text
\* columns handled like category, posting_date like transaction_date and
\* credit_limit like available_credit.
InsertCols ==
    {"transaction_date", "activity_description", "category", "amount_spent",
     "available_credit", "is_subscription"} \cup DerivedCols

TableCols == {"TransactionID", "UserID"} \cup InsertCols

\* df[cols] raises KeyError when the frame lacks one of the columns.
InsertRaises(d) == ~Empty(d) /\ ~(InsertCols \subseteq d.cols)

\* A float bound to a DECIMAL(18, 2) column is rounded to hundredths, a tie
\* going away from zero; the column has no negative zero.
Decimal2(n) ==
    LET c == (Abs(n) + 5) \div 10 IN
    IF n < 0 THEN -(10 * c) ELSE 10 * c

\* The value a cell is stored as: NaN / NaT become NULL, numbers take the
\* scale of their column.
SqlValue(c, x) ==
    IF c \in NumCols /\ x.t = "num" THEN Num(Decimal2(x.v)) ELSE x

\* The table row INSERTed for one row of the frame: no TransactionHash column
\* exists, TransactionID is the identity column.
TableRow(user_id, id, row) ==
    [c \in TableCols |->
        CASE c = "UserID"        -> Whole(user_id)
          [] c = "TransactionID" -> Whole(id)
          [] OTHER               -> SqlValue(c, row[c])]

\* category NVARCHAR(100)
CategoryWidth == 100

\* A row the table refuses: its category does not fit the column.
RowRefused(row) ==
    row["category"].t = "str" /\ Len(row["category"].v) > CategoryWidth

\* cursor.executemany raises a pyodbc.Error: UserID references no row of
\* Users, or the table refuses one of the rows.
ExecuteRaises(usrs, user_id, d) ==
    /\ ~Empty(d)
    /\ \/ \A i \in 1..Len(usrs) : usrs[i].UserID # user_id
       \/ \E i \in 1..Len(d.rows) : RowRefused(d.rows[i])

\* The rows of the frame as rows of the table, TransactionID counting on.
NewRows(table, user_id, rows) ==
    [i \in 1..Len(rows) |-> TableRow(user_id, Len(table) + i, rows[i])]

\* The INSERT run row by row and committed whatever happened: a refused row
\* is skipped, the rows the table accepts are appended.
insert_accepted_rows(table, usrs, user_id, d, fault) ==
    IF Empty(d) \/ fault THEN table
    ELSE LET accepted(r) == ~RowRefused(r) IN
         table \o NewRows(table, user_id, SelectSeq(d.rows, accepted))

\* The write as DELETE of the user's rows followed by the INSERT.
replace_user_rows(table, usrs, user_id, d, fault) ==
    IF Empty(d) \/ fault \/ ExecuteRaises(usrs, user_id, d) THEN table
    ELSE LET others(r) == r["UserID"] # Whole(user_id)
             kept == SelectSeq(table, others) IN
         kept \o NewRows(kept, user_id, d.rows)

\* The table after bulk_insert_transactions: an empty frame returns at once;
\* cursor.executemany(sql, data_tuples) and conn.commit() append every row
\* of the frame (the table carries no uniqueness constraint); a pyodbc.Error,
\* raised by a row or by the connection (fault), rolls everything back.
bulk_insert_transactions(table, usrs, user_id, d, fault) ==
    IF Empty(d) \/ fault \/ ExecuteRaises(usrs, user_id, d) THEN table
    ELSE table \o NewRows(table, user_id, d.rows)

\* get_user_transactions without the WHERE clause: every user's rows.
get_all_transactions(table, user_id) == [cols |-> TableCols, rows |-> table]

\* SELECT * FROM Transactions WHERE UserID = ?
get_user_transactions(table, user_id) ==
    LET mine(r) == r["UserID"] = Whole(user_id) IN
    [cols |-> TableCols, rows |-> SelectSeq(table, mine)]

-----------------------------------------------------------------------------
(* The Users table *)

\* GoogleEmail NVARCHAR(255) UNIQUE NOT NULL; None is bound as NULL.
NoEmail == "None"

UserRow(id, email, display_name, picture_url) ==
    [UserID |-> id, GoogleEmail |-> email,
     DisplayName |-> display_name, PictureURL |-> picture_url]

\* SELECT UserID FROM Users WHERE GoogleEmail = ?, fetchone(): 0 stands for
\* no row (the identity column starts at 1); NULL equals nothing.
select_user_id(table, email) ==
    LET hits == {i \in 1..Len(table) : table[i].GoogleEmail = email} IN
    IF email = NoEmail \/ hits = {} THEN 0
    ELSE table[CHOOSE i \in hits : \A j \in hits : i <= j].UserID

\* UPDATE Users SET DisplayName = ?, PictureURL = ? WHERE GoogleEmail = ?
update_user(table, email, display_name, picture_url) ==
    [i \in 1..Len(table) |->
        IF table[i].GoogleEmail = email
        THEN [table[i] EXCEPT !.DisplayName = display_name,
                              !.PictureURL = picture_url]
        ELSE table[i]]

\* The INSERT is refused for a NULL email and for an email the table holds.
InsertUserRaises(table, email) ==
    \/ email = NoEmail
    \/ \E i \in 1..Len(table) : table[i].GoogleEmail = email

\* What a call can run into: nothing, a pyodbc.Error on its first statement,
\* or a pyodbc.Error on commit.
Faults == {"none", "execute", "commit"}

\* The call answers None (0) and the table is as before: conn.rollback().
\* The identity value an INSERT took is not given back.
rolled_back(table, ident) == [users |-> table, identity |-> ident, user_id |-> 0]

\* The upsert without the SELECT and without the UNIQUE constraint: every
\* call inserts a row.
insert_google_user(table, ident, email, display_name, picture_url, fault) ==
    {[users |-> Append(table, UserRow(ident + 1, email, display_name, picture_url)),
      identity |-> ident + 1, user_id |-> ident + 1]}

\* upsert_google_user: the table, the identity counter and the returned
\* UserID after the call; the outcomes are a set because a refused INSERT
\* may or may not have taken an identity value.
upsert_google_user(table, ident, email, display_name, picture_url, fault) ==
    LET found == select_user_id(table, email) IN
    IF fault = "execute" THEN {rolled_back(table, ident)}
    ELSE IF found # 0
         THEN IF fault = "commit" THEN {rolled_back(table, ident)}
              ELSE {[users |-> update_user(table, email, display_name, picture_url),
                     identity |-> ident, user_id |-> found]}
         ELSE IF InsertUserRaises(table, email)
              THEN {rolled_back(table, ident), rolled_back(table, ident + 1)}
              ELSE IF fault = "commit" THEN {rolled_back(table, ident + 1)}
                   ELSE {[users |-> Append(table, UserRow(ident + 1, email,
                                                display_name, picture_url)),
                          identity |-> ident + 1, user_id |-> ident + 1]}

-----------------------------------------------------------------------------
(* Deduplication Engine *)

\* The fingerprints of a frame's rows.
Fingerprints(d) ==
    IF "TransactionHash" \in d.cols
    THEN {d.rows[i]["TransactionHash"] : i \in 1..Len(d.rows)}
    ELSE {}

\* The stored rows of a user, normalised and fingerprinted again (the table
\* keeps no fingerprint column).
rehash(d) == IF Empty(d) THEN d ELSE create_transaction_hash(apply_data_types(d))

\* The rows of the batch whose fingerprint is not in the corpus.
dedup(d, corpus) ==
    IF "TransactionHash" \in d.cols
    THEN LET novel(r) == r["TransactionHash"] \notin corpus IN
         [d EXCEPT !.rows = SelectSeq(d.rows, novel)]
    ELSE d

-----------------------------------------------------------------------------
(* Extraction: one request to the service per document *)

\* The answers of the service to one document: the request raises, the
\* response has no text, the text is no JSON, the JSON is the object v, the
\* JSON is an array with the elements v, or the JSON is a number or a string.
ServiceError == [k |-> "error"]
EmptyResponse == [k |-> "empty"]
MalformedJson == [k |-> "malformed"]
JsonObject(v) == [k |-> "object", v |-> <<v>>]
JsonArray(v) == [k |-> "array", v |-> v]
JsonScalar == [k |-> "scalar"]

\* An element of a JSON array is a record (a JSON object) or a scalar cell.
IsRecord(x) == "t" \notin DOMAIN x

\* The body of the loop over pdf_texts: what one document adds to
\* all_transactions.  Every exception is caught and the document skipped;
\* only isinstance(transactions, list) is asked of the parsed JSON.
transactions(doc) == IF doc.k = "array" THEN doc.v ELSE <<>>

RECURSIVE all_transactions(_)
all_transactions(texts) ==
    IF texts = <<>> THEN <<>>
    ELSE all_transactions(SubSeq(texts, 1, Len(texts) - 1))
            \o transactions(texts[Len(texts)])

\* The loop with the failure of a request reported inside the batch.
RECURSIVE all_transactions_reporting(_)
all_transactions_reporting(texts) ==
    IF texts = <<>> THEN <<>>
    ELSE all_transactions_reporting(SubSeq(texts, 1, Len(texts) - 1))
            \o (IF texts[Len(texts)].k = "error"
                THEN <<Str(<<"e", "r", "r", "o", "r">>)>>
                ELSE transactions(texts[Len(texts)]))

get_gemini_response_reporting(c, texts) ==
    IF texts = <<>> \/ c = "failed" THEN <<>> ELSE all_transactions_reporting(texts)

\* get_gemini_response_from_pdf_data: "[]" without documents or without a
\* client, else the JSON of all_transactions; written as the array the
\* caller's json.loads reads back from it.
get_gemini_response_from_pdf_data(c, texts) ==
    IF texts = <<>> \/ c = "failed" THEN <<>> ELSE all_transactions(texts)

\* pd.DataFrame(data) and the normaliser after it need every element to be
\* an object: a scalar where a record is expected raises AttributeError
\* (no .keys(), or no .str on the integer column labels).
FrameRaises(data) == \E i \in 1..Len(data) : ~IsRecord(data[i])

-----------------------------------------------------------------------------
(* The stand-alone variant of the pipeline, src/main_main.py: one request   *)
(* for all documents, dates written as 'Jan 01' or 'Jan 01 2024'.           *)

\* str.split(): the words of s between runs of whitespace.
RECURSIVE split(_)
split(s) ==
    LET u == lstrip(s) IN
    IF u = <<>> THEN <<>>
    ELSE LET ends == {k \in 1..Len(u) : u[k] \in Whitespace}
             n == IF ends = {} THEN Len(u) + 1
                  ELSE CHOOSE k \in ends : \A j \in ends : k <= j
         IN  <<SubSeq(u, 1, n - 1)>> \o split(SubSeq(u, n, Len(u)))

\* %b: the month whose three-letter abbreviation w is, in any case; 0 if none.
MonthAbbr(w) ==
    LET ms == {m \in 1..12 : lower(SubSeq(MonthNames[m], 1, 3)) = lower(w)} IN
    IF ms = {} THEN 0 ELSE CHOOSE m \in ms : TRUE

\* datetime.strptime(text, "%b %d %Y"); NA stands for the ValueError.  The
\* whole text has to match: no whitespace around it, three words.
strptime(text) ==
    LET w == split(text) IN
    IF /\ text # <<>>
       /\ text[1] \notin Whitespace /\ text[Len(text)] \notin Whitespace
       /\ Len(w) = 3
       /\ MonthAbbr(w[1]) # 0
       /\ Len(w[2]) \in 1..2 /\ AllDigits(w[2])
       /\ Len(w[3]) = 4 /\ AllDigits(w[3])
       /\ ValidDate(DigitsVal(w[3]), MonthAbbr(w[1]), DigitsVal(w[2]))
    THEN Ts(DigitsVal(w[3]), MonthAbbr(w[1]), DigitsVal(w[2]))
    ELSE NA

\* The default of parse_date_with_year's parameter year.
DefaultYear == 2025

\* An exception other than ValueError leaving parse_date_with_year.
AttributeError == [t |-> "raise"]

\* parse_date_with_year: date_str.split() needs a str, and only ValueError is
\* caught, so None, NaN and numbers raise AttributeError.
parse_date_with_year(x) ==
    IF x.t # "str" THEN AttributeError
    ELSE IF Len(split(x.v)) = 3 THEN strptime(x.v)
    ELSE strptime(x.v \o <<" ">> \o NatStr(DefaultYear))

\* The fixed texts get_gemini_response_from_pdf_data returns in the place of
\* a response.
NoPdfText == [k |-> "text", m |-> "No PDF text provided to generate a response."]
NoResponse == [k |-> "text", m |-> "No response received from the model or empty response."]
ErrorFeeding == [k |-> "text", m |-> "Error feeding data to Gemini API"]

\* get_gemini_response_from_pdf_data of main_main.py: the texts are joined
\* into one prompt and one request is made; texts holds the joined text with
\* the service's answer to it.
main_main_get_gemini_response(texts) ==
    IF texts = <<>> THEN NoPdfText
    ELSE CASE texts[1].k = "error" -> ErrorFeeding
           [] texts[1].k = "empty" -> NoResponse
           [] OTHER                -> texts[1]

\* df[col].dt.<component> on every row: NaN where the date is NaT.
AddDerivedAll(d) ==
    LET cs == d.cols \cup DerivedCols IN
    [cols |-> cs,
     rows |-> [i \in 1..Len(d.rows) |->
        LET r == d.rows[i] IN
        [c \in cs |->
            IF c \in DerivedCols
            THEN IF notna(r["transaction_date"])
                 THEN DerivedValue(c, r["transaction_date"].v)
                 ELSE NA
            ELSE r[c]]]]

\* The post-processing of the frame: dates through parse_date_with_year, the
\* calendar fields, amount_spent through pd.to_numeric.
main_main_post(d) ==
    LET d1 == MapCols(d, DateCols, parse_date_with_year)
        d2 == IF ~Empty(d1) /\ "transaction_date" \in d1.cols
              THEN AddDerivedAll(d1) ELSE d1
    IN  MapCols(d2, {"amount_spent"}, to_numeric)

PostRaises(d) ==
    \E i \in 1..Len(d.rows) : \E c \in DateCols \cap d.cols :
        parse_date_with_year(d.rows[i][c]) = AttributeError

\* convert_gemini_response_to_dataframe of main_main.py: the way it returns
\* and the frame it returns, for an answer whose array holds records.  Every
\* exception is caught and answered with an empty frame.
main_main_convert(resp) ==
    CASE resp.k = "text" /\ resp.m \in {NoResponse.m, ErrorFeeding.m} ->
            [path |-> "mm_no_response", frame |-> EmptyFrame]
      [] resp.k = "text" \/ resp.k = "malformed" ->
            [path |-> "mm_decode_error", frame |-> EmptyFrame]
      [] resp.k = "scalar" ->
            [path |-> "mm_unexpected_structure", frame |-> EmptyFrame]
      [] resp.k \in {"array", "object"} ->
            \* a list becomes pd.DataFrame(data), a dict pd.DataFrame([data])
            LET data == resp.v IN
            IF PostRaises(DataFrame(data))
            THEN [path |-> "mm_unexpected_error", frame |-> EmptyFrame]
            ELSE [path |-> "mm_done", frame |-> main_main_post(DataFrame(data))]

-----------------------------------------------------------------------------
(* The ingestion call, step by step *)

\* All sequences over S of length at most n.
RECURSIVE SeqsUpTo(_, _)
SeqsUpTo(S, n) ==
    IF n = 0 THEN {<<>>}
    ELSE LET shorter == SeqsUpTo(S, n - 1) IN
         shorter \cup {Append(q, x) : q \in shorter, x \in S}

Users == {1, 2}

Emails == {"a@example.com", "b@example.com"}
DisplayNames == {"Ada", "Ada L."}
PictureURLs == {"p1", "p2"}

\* The rows of the two users of the ingestion runs.
Registered ==
    <<UserRow(1, "a@example.com", "Ada", "p1"), UserRow(2, "b@example.com", "Ada", "p1")>>

\* No call of upsert_google_user was made yet.
NoCall == [email |-> NoEmail, user_id |-> 0]

MaxIdentity == 2

Idle(table, book) ==
    /\ pc = "idle"
    /\ uid = 1
    /\ response = <<>>
    /\ df = EmptyFrame
    /\ pre = EmptyFrame
    /\ existing = EmptyFrame
    /\ to_insert = EmptyFrame
    /\ skipped = 0
    /\ db = table
    /\ ledger = book
    /\ pdf_texts = <<>>
    /\ client = "none"
    /\ given = EmptyFrame
    /\ users = Registered
    /\ identity = Len(Registered)
    /\ returned = NoCall

\* get_gemini_response_from_pdf_data returned the records `data` for user u.
Extract(u, data) ==
    /\ pc = "idle"
    /\ pc' = "extracted"
    /\ uid' = u
    /\ response' = data
    /\ UNCHANGED <<given, users, identity, returned, pdf_texts, client, df, pre, existing, to_insert, skipped, db, ledger>>

\* get_gemini_response_from_pdf_data on the documents of the call: the
\* client is built first, then one request is made per document.
GetGeminiResponse ==
    /\ pc = "start"
    /\ pc' = "extracted"
    /\ response' = get_gemini_response_from_pdf_data(client, pdf_texts)
    /\ UNCHANGED <<given, users, identity, returned, pdf_texts, client, uid, df, pre, existing, to_insert, skipped, db, ledger>>

GetGeminiResponseMainMain ==
    /\ pc = "mm_start"
    /\ pc' = "mm_extracted"
    /\ response' = main_main_get_gemini_response(pdf_texts)
    /\ UNCHANGED <<given, users, identity, returned, pdf_texts, client, uid, df, pre, existing, to_insert, skipped, db, ledger>>

ConvertMainMain ==
    /\ pc = "mm_extracted"
    /\ pc' = main_main_convert(response).path
    /\ df' = main_main_convert(response).frame
    /\ UNCHANGED <<given, users, identity, returned, pdf_texts, client, uid, response, pre, existing, to_insert, skipped, db, ledger>>

\* convert_gemini_response_to_dataframe: an empty array gives an empty frame
\* at once, anything else becomes pd.DataFrame(data).
BuildFrame ==
    /\ pc = "extracted"
    /\ IF response = <<>>
       THEN pc' = "ready" /\ df' = EmptyFrame
       ELSE IF FrameRaises(response)
            THEN pc' = "raised" /\ df' = df
            ELSE pc' = "framed" /\ df' = DataFrame(response)
    /\ UNCHANGED <<given, users, identity, returned, pdf_texts, client, uid, response, pre, existing, to_insert, skipped, db, ledger>>

\* The normaliser left out of the chain: the raw frame goes on to the hasher.
DataTypesSkipped ==
    /\ pc = "framed"
    /\ pc' = "typed"
    /\ UNCHANGED <<given, users, identity, returned, pdf_texts, client, uid, response, df, pre, existing, to_insert, skipped, db, ledger>>

\* df = apply_data_types(df): the function assigns to the columns of the
\* object it was given and returns that same object; when it raises, the
\* column names are already renamed.
ApplyDataTypes ==
    /\ pc = "framed"
    /\ IF ApplyRaises(df)
       THEN pc' = "raised" /\ df' = df /\ given' = StripColumns(df)
       ELSE pc' = "typed" /\ df' = apply_data_types(df) /\ given' = df'
    /\ UNCHANGED <<users, identity, returned, pdf_texts, client, uid, response, pre, existing, to_insert, skipped, db, ledger>>

CreateTransactionHash ==
    /\ pc = "typed"
    /\ IF HashRaises(df)
       THEN pc' = "raised" /\ df' = df
       ELSE pc' = "hashed" /\ df' = create_transaction_hash(df)
    /\ UNCHANGED <<given, users, identity, returned, pdf_texts, client, uid, response, pre, existing, to_insert, skipped, db, ledger>>

CalculateRunningCredit ==
    /\ pc = "hashed"
    /\ pre' = df
    /\ IF CreditRaises(df)
       THEN pc' = "raised" /\ df' = df
       ELSE pc' = "ready" /\ df' \in calculate_running_credit(df)
    /\ UNCHANGED <<given, users, identity, returned, pdf_texts, client, uid, response, existing, to_insert, skipped, db, ledger>>

\* The user's stored rows are read once per call and fingerprinted again.
LoadCorpus ==
    /\ pc = "ready"
    /\ pc' = "loaded"
    /\ existing' = rehash(get_user_transactions(db, uid))
    /\ UNCHANGED <<given, users, identity, returned, pdf_texts, client, uid, response, df, pre, to_insert, skipped, db, ledger>>

Dedup ==
    /\ pc = "loaded"
    /\ pc' = "deduped"
    /\ to_insert' = dedup(df, Fingerprints(existing))
    /\ skipped' = Len(df.rows) - Len(to_insert'.rows)
    /\ UNCHANGED <<given, users, identity, returned, pdf_texts, client, uid, response, df, pre, existing, db, ledger>>

\* The locals of a call die with it.
Return ==
    /\ pc' = "idle"
    /\ uid' = 1
    /\ response' = <<>>
    /\ df' = EmptyFrame
    /\ pre' = EmptyFrame
    /\ existing' = EmptyFrame
    /\ to_insert' = EmptyFrame
    /\ skipped' = 0
    /\ pdf_texts' = <<>>
    /\ client' = "none"
    /\ given' = EmptyFrame
    /\ UNCHANGED <<users, identity, returned>>

\* bulk_insert_transactions: KeyError on a missing column leaves the call;
\* otherwise the batch is committed, or rolled back on a pyodbc.Error, be it
\* raised by a row of the batch or by the connection.
BulkInsert ==
    /\ pc = "deduped"
    /\ IF InsertRaises(to_insert)
       THEN /\ pc' = "raised"
            /\ UNCHANGED <<given, users, identity, returned, pdf_texts, client, uid, response, df, pre, existing, to_insert, skipped, db, ledger>>
       ELSE /\ Return
            /\ \E fault \in BOOLEAN :
                LET table == bulk_insert_transactions(db, users, uid, to_insert, fault) IN
                /\ db' = table
                /\ ledger' = IF table = db THEN ledger
                             ELSE ledger \o
                                  [i \in 1..Len(to_insert.rows) |->
                                      to_insert.rows[i]["TransactionHash"]]

\* An exception nobody catches ends the call; the next one starts afresh.
Abort ==
    /\ pc = "raised"
    /\ Return
    /\ UNCHANGED <<db, ledger>>

\* One call of upsert_google_user between two ingestion calls, its arguments
\* taken from the given sets.
Upsert(emails, display_names, picture_urls) ==
    /\ pc = "idle"
    /\ \E email \in emails : \E display_name \in display_names :
       \E picture_url \in picture_urls : \E fault \in Faults :
       \E out \in upsert_google_user(users, identity, email, display_name,
                                     picture_url, fault) :
            /\ out.identity <= MaxIdentity
            /\ users' = out.users
            /\ identity' = out.identity
            /\ returned' = [email |-> email, user_id |-> out.user_id]
    /\ UNCHANGED <<given, pdf_texts, client, pc, uid, response, df, pre, existing, to_insert, skipped, db, ledger>>

\* A call with any email, None included, any name and any picture.
UpsertGoogleUser == Upsert(Emails \cup {NoEmail}, DisplayNames, PictureURLs)

\* A user signs in: the call is made with the profile of the account.
SignIn == Upsert(Emails, {"Ada"}, {"p1"})

Pipeline ==
    \/ BuildFrame
    \/ ApplyDataTypes
    \/ CreateTransactionHash
    \/ CalculateRunningCredit

-----------------------------------------------------------------------------
(* Inputs: the texts and raw records the extraction service is taken to    *)
(* return.                                                                 *)

Jan03 == <<"0", "1", "-", "0", "3", "-", "2", "0", "2", "5">>
Jan05 == <<"0", "1", "-", "0", "5", "-", "2", "0", "2", "5">>
Jan09 == <<"0", "1", "-", "0", "9", "-", "2", "0", "2", "5">>
Feb30 == <<"0", "2", "-", "3", "0", "-", "2", "0", "2", "5">>
NotADate == <<"s", "e", "e", " ", "a", "b", "o", "v", "e">>
UberPadded == <<" ", "U", "B", "E", "R", " ">>
UberLower == <<"u", "b", "e", "r">>
Lyft == <<"L", "y", "f", "t">>
TravelPadded == <<" ", "T", "r", "a", "v", "e", "l", " ">>
Travel == <<"T", "r", "a", "v", "e", "l">>
FourFifty == <<"4", ".", "5", "0">>
FourFiftyPadded == <<" ", "4", ".", "5", " ">>
Dollar == <<"$", "4", ".", "5", "0">>
Yes == <<"Y", "E", "S">>
EmptyText == <<>>
Zero == <<"0">>
No == <<"n", "o">>
UberDash == <<"u", "b", "e", "r", "-">>

\* A raw record carrying all six modelled fields.
Raw(date, desc, amount, credit, cat, sub) ==
    [transaction_date |-> date, activity_description |-> desc,
     amount_spent |-> amount, available_credit |-> credit,
     category |-> cat, is_subscription |-> sub]

MaxBatch == 2
MaxRows == 3

\* Two spellings of one transaction, a sub-cent credit without description,
\* an undated record without amount, and a record lacking three fields.
MainPool ==
    {Raw(Str(Jan05), Str(UberPadded), Str(FourFifty), Num(100000), Str(TravelPadded), Bool(TRUE)),
     Raw(Str(Jan05), Str(UberLower), Num(4500), NA, Str(Travel), NA),
     Raw(Str(Jan03), NA, Num(-1), NA, NA, Str(Yes)),
     Raw(Str(NotADate), Str(Lyft), NA, Num(50000), Str(Travel), Bool(FALSE)),
     [transaction_date |-> Str(Jan09), activity_description |-> Str(Lyft),
      amount_spent |-> Num(12000)]}

Init == Idle(<<>>, <<>>)

Ingest ==
    \E u \in Users : \E data \in SeqsUpTo(MainPool, MaxBatch) :
        /\ Len(db) + Len(data) <= MaxRows
        /\ Extract(u, data)

Next ==
    \/ Ingest
    \/ Pipeline
    \/ LoadCorpus
    \/ Dedup
    \/ BulkInsert
    \/ Abort

Spec == Init /\ [][Next]_vars

-----------------------------------------------------------------------------
(* The pipeline alone, on batches drawn from a pool of raw records *)

Extracted(data) ==
    /\ pc = "extracted"
    /\ uid = 1
    /\ response = data
    /\ df = EmptyFrame
    /\ pre = EmptyFrame
    /\ existing = EmptyFrame
    /\ to_insert = EmptyFrame
    /\ skipped = 0
    /\ db = <<>>
    /\ ledger = <<>>
    /\ pdf_texts = <<>>
    /\ client = "none"
    /\ given = EmptyFrame
    /\ users = Registered
    /\ identity = Len(Registered)
    /\ returned = NoCall

MaxHashBatch == 2

\* Spellings of one transaction that differ in case, padding, sub-cent
\* digits or in the fields the hasher ignores; transactions that differ in
\* one hashed field; records with nothing to hash; a description that ends
\* with the separator; a record without the activity_description field.
HashPool ==
    {Raw(Str(Jan05), Str(UberPadded), Str(FourFifty), Num(100000), Str(Travel), Bool(TRUE)),
     Raw(Str(Jan05), Str(UberPadded), Num(4500), NA, NA, NA),
     Raw(Str(Jan05), Str(UberLower), Num(4501), NA, Str(Travel), NA),
     Raw(Str(Jan05), Str(Lyft), Num(4500), NA, Str(Travel), NA),
     Raw(Str(Jan03), Str(UberLower), Num(4500), NA, Str(Travel), NA),
     Raw(Str(Jan05), Str(UberLower), Num(-4500), NA, Str(Travel), NA),
     Raw(Str(NotADate), NA, NA, Num(50000), Str(Travel), Bool(FALSE)),
     Raw(NA, NA, Str(Dollar), NA, NA, NA),
     Raw(Str(Jan05), Str(UberDash), Num(4500), NA, Str(Travel), NA),
     [transaction_date |-> Str(Jan05), amount_spent |-> Num(4500)]}

InitHash == \E data \in SeqsUpTo(HashPool, MaxHashBatch) : Extracted(data)

SpecHash == InitHash /\ [][Pipeline]_vars

MaxNormBatch == 2

\* Raw values of every kind the normaliser meets: padded text, a padded
\* field name, dates that do not exist or are no dates, numeric text with and
\* without padding, text that is no number, truthy and falsy texts, nulls,
\* and the empty strings the prompt allows for what a statement lacks.
NormPool ==
    {Raw(Str(Jan05), Str(UberPadded), Str(FourFifty), Num(100000), Str(TravelPadded), Bool(TRUE)),
     Raw(Str(Feb30), Str(UberLower), Str(FourFiftyPadded), Str(Dollar), NA, Str(Yes)),
     Raw(Str(NotADate), NA, Str(Dollar), NA, Str(Travel), Str(No)),
     Raw(NA, Str(Lyft), NA, Num(0), Str(Travel), NA),
     Raw(Str(Jan03), Str(Lyft), Num(-1), NA, NA, Bool(FALSE)),
     (" category " :> Str(TravelPadded)) @@
        [transaction_date |-> Str(Jan09), activity_description |-> Str(UberPadded),
         amount_spent |-> Str(FourFifty), available_credit |-> NA],
     [activity_description |-> Str(UberPadded), amount_spent |-> Str(Dollar)],
     Raw(Str(EmptyText), Str(EmptyText), Str(EmptyText), Str(Zero), Str(EmptyText), Str(EmptyText))}

InitNorm == \E data \in SeqsUpTo(NormPool, MaxNormBatch) : Extracted(data)

SpecNorm == InitNorm /\ [][Pipeline]_vars

MaxCreditBatch == 3

\* An opening record, a record of the same day, a payment, a later balance
\* snapshot, an undated record, a record without amount, and two records
\* that lack the available_credit field.
CreditPool ==
    {Raw(Str(Jan03), Str(Lyft), Num(12000), Num(100000), Str(Travel), NA),
     Raw(Str(Jan03), Str(UberLower), Num(4500), NA, Str(Travel), NA),
     Raw(Str(Jan05), Str(UberLower), Num(-20000), NA, Str(Travel), NA),
     Raw(Str(Jan09), Str(Lyft), Num(4500), Num(50000), Str(Travel), NA),
     Raw(NA, Str(Lyft), NA, NA, Str(Travel), NA),
     Raw(Str(Jan05), NA, NA, NA, Str(Travel), NA),
     [transaction_date |-> Str(Jan09), activity_description |-> Str(Lyft),
      amount_spent |-> Num(12000)],
     [transaction_date |-> Str(Jan03), activity_description |-> Str(UberLower),
      amount_spent |-> Num(4500)]}

InitCredit == \E data \in SeqsUpTo(CreditPool, MaxCreditBatch) : Extracted(data)

SpecCredit == InitCredit /\ [][Pipeline]_vars

MaxDocs == 2

\* A document the service fails on in each of the ways above, a statement of
\* three transactions, one of a single transaction, and an array that holds
\* a remark in the place of records.
DocPool ==
    {ServiceError, EmptyResponse, MalformedJson, JsonScalar,
     JsonObject(Raw(Str(Jan05), Str(Lyft), Num(4500), NA, Str(Travel), NA)),
     JsonArray(<<Raw(Str(Jan03), Str(Lyft), Num(12000), Num(100000), Str(Travel), Bool(FALSE)),
                 Raw(Str(Jan05), Str(UberPadded), Str(FourFifty), NA, Str(Travel), Bool(TRUE)),
                 Raw(Str(Jan09), Str(UberLower), Num(-20000), NA, NA, Str(No))>>),
     JsonArray(<<Raw(Str(Jan05), Str(Lyft), Num(4500), NA, Str(Travel), NA)>>),
     JsonArray(<<Str(NotADate)>>)}

\* A call with its documents, before the client is built.
Started(at, c, texts) ==
    /\ pc = at
    /\ uid = 1
    /\ response = <<>>
    /\ df = EmptyFrame
    /\ pre = EmptyFrame
    /\ existing = EmptyFrame
    /\ to_insert = EmptyFrame
    /\ skipped = 0
    /\ db = <<>>
    /\ ledger = <<>>
    /\ pdf_texts = texts
    /\ client = c
    /\ given = EmptyFrame
    /\ users = Registered
    /\ identity = Len(Registered)
    /\ returned = NoCall

InitDocs ==
    \E c \in {"ok", "failed"} : \E texts \in SeqsUpTo(DocPool, MaxDocs) :
        Started("start", c, texts)

SpecDocs == InitDocs /\ [][GetGeminiResponse \/ Pipeline]_vars

JanFive == <<"J", "a", "n", " ", "0", "5">>
JanFive2024 == <<"j", "a", "n", " ", "5", " ", "2", "0", "2", "4">>
FebTwentyNine == <<"F", "e", "b", " ", "2", "9">>

MaxMainMainBatch == 2

\* Dates with and without a year, 29 February without one, a date in the
\* other variant's format, an empty date, a null date and a date given as a
\* number.
MainMainPool ==
    {Raw(Str(JanFive), Str(Lyft), Num(4500), Num(100000), Str(Travel), Bool(FALSE)),
     Raw(Str(JanFive2024), Str(UberPadded), Str(FourFifty), NA, Str(Travel), Bool(TRUE)),
     Raw(Str(FebTwentyNine), Str(Lyft), Str(Dollar), NA, Str(Travel), NA),
     Raw(Str(Jan05), Str(Lyft), Num(12000), NA, Str(Travel), NA),
     Raw(Str(EmptyText), Str(UberLower), Str(EmptyText), NA, NA, NA),
     Raw(NA, Str(Lyft), Num(4500), NA, Str(Travel), NA),
     Raw(Num(1052025000), Str(Lyft), Num(4500), NA, Str(Travel), NA)}

\* The joined documents of a call with the answer of the service to them.
MainMainDocs ==
    {ServiceError, EmptyResponse, MalformedJson, JsonScalar,
     JsonObject(Raw(Str(JanFive), Str(Lyft), Num(4500), NA, Str(Travel), NA))}
        \cup {JsonArray(v) : v \in SeqsUpTo(MainMainPool, MaxMainMainBatch)}

InitMainMain ==
    \E texts \in {<<>>} \cup {<<d>> : d \in MainMainDocs} :
        Started("mm_start", "ok", texts)

SpecMainMain == InitMainMain /\ [][GetGeminiResponseMainMain \/ ConvertMainMain]_vars

\* Both variants of the extraction.
SpecExtraction ==
    /\ InitDocs \/ InitMainMain
    /\ [][GetGeminiResponse \/ Pipeline \/ GetGeminiResponseMainMain \/ ConvertMainMain]_vars

-----------------------------------------------------------------------------
(* Properties *)

Rows(d) == 1..Len(d.rows)

\* The rows of the table that belong to user u, in insertion order.
Stored(u) ==
    LET owned(r) == r["UserID"] = Whole(u) IN SelectSeq(db, owned)

\* Claim C1: the rows persisted for one user never hold two rows with the
\* same fingerprint, that is the same transaction_date, lower-cased trimmed
\* activity_description and two-decimal amount_spent.
C1_UniqueFingerprintPerUser ==
    \A i, j \in 1..Len(db) :
        (i < j /\ db[i]["UserID"] = db[j]["UserID"])
            => hash_string(db[i]) # hash_string(db[j])

Alone(row) == [cols |-> HashCols, rows |-> <<[c \in HashCols |-> row[c]]>>]

SameHashedFields(r, q) == \A c \in HashCols : r[c] = q[c]

\* Claim C3: the fingerprint of a record depends on nothing but its own
\* transaction_date, activity_description and amount_spent: records of a batch
\* that agree on the three get the same fingerprint, and hashing a record
\* again, alone and in another call, returns the fingerprint it has.
C3_FingerprintOfOwnFieldsOnly ==
    pc = "hashed" =>
        /\ \A i, j \in Rows(df) :
            SameHashedFields(df.rows[i], df.rows[j])
                => df.rows[i]["TransactionHash"] = df.rows[j]["TransactionHash"]
        /\ \A i \in Rows(df) :
            create_transaction_hash(Alone(df.rows[i])).rows[1]["TransactionHash"]
                = df.rows[i]["TransactionHash"]

C3_Witness ==
    /\ pc = "hashed"
    /\ \E i, j \in Rows(df) :
        /\ i # j
        /\ SameHashedFields(df.rows[i], df.rows[j])
        /\ df.rows[i]["category"] # df.rows[j]["category"]
        /\ df.rows[i]["available_credit"] # df.rows[j]["available_credit"]

\* Equal after lower-casing and trimming; two absent descriptions are equal.
SameDescription(a, b) ==
    \/ a = NA /\ b = NA
    \/ a.t = "str" /\ b.t = "str" /\ strip(lower(a.v)) = strip(lower(b.v))

\* Equal when written with two decimals; two absent amounts are equal.
SameAmount(a, b) ==
    \/ a = NA /\ b = NA
    \/ a.t = "num" /\ b.t = "num" /\ Fmt2(a.v) = Fmt2(b.v)

\* Claim C4: two records with the same transaction_date, descriptions equal
\* after lower-casing and trimming, and amounts equal when written with two
\* decimals get the same fingerprint, whatever their other fields are.
C4_EquivalentRecordsCollide ==
    pc = "hashed" =>
        \A i, j \in Rows(df) :
            ( /\ df.rows[i]["transaction_date"] = df.rows[j]["transaction_date"]
              /\ SameDescription(df.rows[i]["activity_description"],
                                 df.rows[j]["activity_description"])
              /\ SameAmount(df.rows[i]["amount_spent"], df.rows[j]["amount_spent"]) )
            => df.rows[i]["TransactionHash"] = df.rows[j]["TransactionHash"]

C4_Witness ==
    /\ pc = "hashed"
    /\ \E i, j \in Rows(df) :
        /\ df.rows[i]["activity_description"] # df.rows[j]["activity_description"]
        /\ df.rows[i]["amount_spent"] # df.rows[j]["amount_spent"]
        /\ df.rows[i]["category"] # df.rows[j]["category"]
        /\ notna(df.rows[i]["transaction_date"])
        /\ df.rows[i]["TransactionHash"] = df.rows[j]["TransactionHash"]

\* Claim C5: hashing never fails, also on a batch without a description or
\* date field, and a record whose date, description and amount are all absent
\* gets the digest of the string with three empty components, "--".
C5_AllAbsentHashesEmptyComponents ==
    /\ pc # "raised"
    /\ pc = "hashed" =>
        \A i \in Rows(df) :
            (\A c \in HashCols : df.rows[i][c] = NA)
                => df.rows[i]["TransactionHash"] = Md5(<<"-", "-">>)

\* Claim C6: the fingerprint derived again from a row as read back from
\* storage is the fingerprint computed when the row was ingested.
C6_RederivedFingerprintIsIngested ==
    \A u \in Users :
        LET back == rehash(get_user_transactions(db, u)) IN
        \A k \in Rows(back) :
            back.rows[k]["TransactionHash"]
                = ledger[back.rows[k]["TransactionID"].v]

\* Claim C7: normalising a normalised batch changes nothing, field by field.
C7_NormalizerIdempotent ==
    pc = "typed" => apply_data_types(df) = df

\* A batch the first normalisation did change: a date and a number coerced to
\* absent, a text trimmed, a truthy text made a boolean.
C7_Witness ==
    /\ pc = "typed"
    /\ \E i \in Rows(df) :
        /\ DOMAIN response[i] = DOMAIN Raw(NA, NA, NA, NA, NA, NA)
        /\ response[i]["transaction_date"].t = "str"
        /\ df.rows[i]["transaction_date"] = NA
        /\ response[i]["available_credit"].t = "str"
        /\ df.rows[i]["available_credit"] = NA
        /\ df.rows[i]["is_subscription"] = Bool(TRUE)
    /\ \E i \in Rows(df) :
        /\ response[i]["activity_description"] = Str(UberPadded)
        /\ df.rows[i]["activity_description"] = Str(<<"U", "B", "E", "R">>)

-----------------------------------------------------------------------------
(* Properties of the Running Balance Reconstructor *)

HasCreditCols(d) ==
    ~Empty(d) /\ {"amount_spent", "available_credit"} \subseteq d.cols

\* No date is followed by an earlier one; undated rows are not compared.
DatedAscending(rows) ==
    \A i, j \in 1..Len(rows) :
        (i < j /\ notna(rows[i]["transaction_date"])
               /\ notna(rows[j]["transaction_date"]))
            => ~DateLess(rows[j]["transaction_date"].v, rows[i]["transaction_date"].v)

\* Ascending by date with the undated rows last.
SortedAscending(rows) ==
    /\ DatedAscending(rows)
    /\ \A i, j \in 1..Len(rows) :
        (i < j /\ notna(rows[j]["transaction_date"]))
            => notna(rows[i]["transaction_date"])

\* A row without its balance.
Core(row) == [c \in (DOMAIN row) \ {"available_credit"} |-> row[c]]

IsPermutation(a, b) ==
    /\ Len(a) = Len(b)
    /\ \E p \in Perms(Len(a)) : \A i \in 1..Len(a) : a[i] = b[p[i]]

CoreRows(rows) == [i \in 1..Len(rows) |-> Core(rows[i])]

RECURSIVE SumAmounts(_, _)
SumAmounts(rows, k) ==
    IF k = 0 THEN 0 ELSE SumAmounts(rows, k - 1) + rows[k]["amount_spent"].v

\* Claim C8: for a date-sorted batch whose first record carries the opening
\* balance B and whose amounts are a1, a2, ..., the k-th record of the batch
\* ends with available_credit B - (a1 + ... + ak).
C8_BalanceIsOpeningMinusCumulativeSpend ==
    ( /\ pc = "ready"
      /\ HasCreditCols(pre)
      /\ SortedAscending(pre.rows)
      /\ notna(pre.rows[1]["available_credit"])
      /\ \A i \in Rows(pre) : notna(pre.rows[i]["amount_spent"]) )
    => \A k \in Rows(pre) :
        /\ Core(df.rows[k]) = Core(pre.rows[k])
        /\ df.rows[k]["available_credit"]
            = Num(pre.rows[1]["available_credit"].v - SumAmounts(pre.rows, k))

NoKnownCredit(d) ==
    \A i \in Rows(d) :
        "available_credit" \in d.cols => ~notna(d.rows[i]["available_credit"])

\* Claim C9, as stated: without a known available_credit the batch comes back
\* unmodified, the same records in the same order.
C9_NoKnownCreditSameOrder ==
    (pc = "ready" /\ NoKnownCredit(pre)) => df = pre

\* Claim C9, amended: without a known available_credit every record comes
\* back with every field as it was and its available_credit still absent; the
\* records are in ascending date order when the batch has the amount_spent
\* and available_credit columns, and in input order when it lacks one.
C9_NoKnownCreditSameRecords ==
    (pc = "ready" /\ NoKnownCredit(pre)) =>
        /\ df.cols = pre.cols
        /\ IsPermutation(df.rows, pre.rows)
        /\ NoKnownCredit(df)
        /\ IF HasCreditCols(pre) THEN SortedAscending(df.rows) ELSE df = pre

C9_Witness ==
    /\ pc = "ready"
    /\ HasCreditCols(pre)
    /\ NoKnownCredit(pre)
    /\ Len(pre.rows) = 3
    /\ df # pre

\* Claim C10, as stated: the output of calculate_running_credit is a
\* permutation of the input records in ascending transaction_date order.
C10_OutputSortedPermutation ==
    pc = "ready" =>
        /\ IsPermutation(CoreRows(df.rows), CoreRows(pre.rows))
        /\ DatedAscending(df.rows)

\* Claim C10, amended: for a batch that has the amount_spent and
\* available_credit columns the output is a permutation of the input records
\* in ascending transaction_date order, undated records last; a batch lacking
\* one of the columns is returned as it is, in input order.
C10_SortedPermutationGivenColumns ==
    pc = "ready" =>
        IF HasCreditCols(pre)
        THEN /\ IsPermutation(CoreRows(df.rows), CoreRows(pre.rows))
             /\ SortedAscending(df.rows)
        ELSE df = pre

C10_Witness ==
    /\ pc = "ready"
    /\ HasCreditCols(pre)
    /\ Len(pre.rows) = 3
    /\ ~DatedAscending(pre.rows)
    /\ \E i \in Rows(pre) : ~notna(pre.rows[i]["transaction_date"])
    /\ \E i \in Rows(pre) : df.rows[i]["available_credit"] # pre.rows[i]["available_credit"]

\* The one order a stable sort returns: by date, equal dates and undated rows
\* each in input order.
StableOrder(rows) ==
    CHOOSE p \in SortOrders(rows) :
        \A i, j \in 1..Len(rows) :
            (i < j /\ rows[p[i]]["transaction_date"] = rows[p[j]]["transaction_date"])
                => p[i] < p[j]

\* Claim C11: records that share a transaction_date come out in the relative
\* order they had in the input, so the output is the input in stable date
\* order and the balances of same-day records follow input order.
C11_SameDayRecordsKeepInputOrder ==
    (pc = "ready" /\ HasCreditCols(pre)) =>
        df.rows = rebalance(Reorder(pre.rows, StableOrder(pre.rows)))

\* Claim C12: the records that precede, in the date order of the output, the
\* first record with a known available_credit come back as they were, the
\* available_credit absent and every other field unchanged.
C12_RecordsBeforeOpeningUntouched ==
    (pc = "ready" /\ HasCreditCols(pre)) =>
        \E p \in Perms(Len(pre.rows)) :
            LET sorted == Reorder(pre.rows, p)
                f == first_valid_index(sorted)
            IN  /\ SortedAscending(sorted)
                /\ CoreRows(df.rows) = CoreRows(sorted)
                /\ \A k \in Rows(df) :
                    (f = 0 \/ k < f) =>
                        /\ df.rows[k] = sorted[k]
                        /\ ~notna(df.rows[k]["available_credit"])

\* Two records come before the opening balance, one of them with an amount.
C12_Witness ==
    /\ pc = "ready"
    /\ HasCreditCols(pre)
    /\ Len(df.rows) = 3
    /\ ~notna(df.rows[1]["available_credit"])
    /\ ~notna(df.rows[2]["available_credit"])
    /\ notna(df.rows[1]["amount_spent"])
    /\ notna(df.rows[3]["available_credit"])
    /\ \E i \in Rows(pre) : notna(pre.rows[i]["available_credit"])
    /\ df.rows # pre.rows

-----------------------------------------------------------------------------
(* Properties of the Type Normalizer *)

\* The raw value record i carries for the field named c once names are
\* trimmed; absent when the record has no such key.
RawCell(i, c) ==
    LET keys == {o \in DOMAIN response[i] : StripName(o) = c} IN
    IF keys = {} THEN NA ELSE response[i][CHOOSE o \in keys : TRUE]

NumberChars == {Digits[k] : k \in 1..10} \cup {".", "-"} \cup Whitespace

\* Text that holds a character no number is written with, or nothing but
\* whitespace.
NotNumeric(s) ==
    \/ \E k \in 1..Len(s) : s[k] \notin NumberChars
    \/ \A k \in 1..Len(s) : s[k] \in Whitespace

\* Claim C15: after normalisation a numeric field is a number or absent; a
\* raw number is kept as it is, a raw zero as 0; text that is no number and an
\* absent value become absent, never 0; and no call fails for the value of a
\* numeric field.
C15_NumericParsingCoercesToAbsent ==
    /\ pc = "typed" =>
        \A i \in Rows(df) : \A c \in NumCols \cap df.cols :
            LET raw == RawCell(i, c)
                v == df.rows[i][c]
            IN  /\ v.t \in {"num", "na"}
                /\ raw.t = "num" => v = raw
                /\ raw = NA => v = NA
                /\ (raw.t = "str" /\ NotNumeric(raw.v)) => v = NA
                /\ v = Num(0) => (raw = Num(0) \/ raw = Str(Zero))
    /\ pc = "raised" =>
        \/ \E i, j \in 1..Len(response) :
            \E a \in DOMAIN response[i] : \E b \in DOMAIN response[j] :
                a # b /\ StripName(a) = StripName(b)
        \/ \E c \in HashCols : \A i \in 1..Len(response) : c \notin DOMAIN response[i]

\* A batch with a raw zero, a text zero, an empty text and a text that is no
\* number in its numeric fields.
C15_Witness ==
    /\ pc = "typed"
    /\ Len(df.rows) = 2
    /\ \E i, j \in Rows(df) :
        /\ RawCell(i, "available_credit") = Num(0)
        /\ df.rows[i]["available_credit"] = Num(0)
        /\ RawCell(i, "amount_spent") = NA
        /\ RawCell(j, "amount_spent") = Str(Dollar)
        /\ df.rows[j]["amount_spent"] = NA

\* The raw values is_subscription reads as true.
Truthy(raw) ==
    \/ raw = Bool(TRUE)
    \/ raw.t = "str" /\ lower(raw.v) \in TruthyTexts

\* Claim C16: after normalisation every record has a boolean is_subscription,
\* true exactly when the raw value is one of true, 1, t, y, yes in any case,
\* false otherwise, also when the value is absent or no record of the batch
\* carries the field.
C16_SubscriptionIsBooleanOnEveryRecord ==
    pc = "typed" =>
        /\ "is_subscription" \in df.cols
        /\ \A i \in Rows(df) :
            df.rows[i]["is_subscription"] = Bool(Truthy(RawCell(i, "is_subscription")))

\* Claim C17: the derived fields year, month, day, month_name and day_of_week
\* of a normalised record are present exactly when its transaction_date is,
\* and are then the calendar components of that date; a record with an
\* invalid or missing date has all of them absent.
C17_DerivedFieldsIffValidDate ==
    pc = "typed" =>
        \A i \in Rows(df) :
            LET r == df.rows[i] IN
            IF "transaction_date" \in df.cols /\ notna(r["transaction_date"])
            THEN LET v == r["transaction_date"].v IN
                 /\ ValidDate(v[1], v[2], v[3])
                 /\ RawCell(i, "transaction_date").t = "str"
                 /\ r["year"] = Whole(v[1])
                 /\ r["month"] = Whole(v[2]) /\ v[2] \in 1..12
                 /\ r["day"] = Whole(v[3]) /\ v[3] \in 1..31
                 /\ r["month_name"] = Str(MonthNames[v[2]])
                 /\ \E k \in 1..7 : r["day_of_week"] = Str(DayNames[k])
            ELSE \A c \in DerivedCols \cap df.cols : r[c] = NA

\* One record dated Sunday 5 January 2025 next to one dated 30 February.
C17_Witness ==
    /\ pc = "typed"
    /\ \E i, j \in Rows(df) :
        /\ RawCell(i, "transaction_date") = Str(Jan05)
        /\ df.rows[i]["year"] = Whole(2025)
        /\ df.rows[i]["month_name"] = Str(<<"J", "a", "n", "u", "a", "r", "y">>)
        /\ df.rows[i]["day_of_week"] = Str(<<"S", "u", "n", "d", "a", "y">>)
        /\ RawCell(j, "transaction_date") = Str(Feb30)
        /\ df.rows[j]["transaction_date"] = NA
        /\ df.rows[j]["year"] = NA
        /\ df.rows[j]["day_of_week"] = NA

TextCols == {"activity_description", "category"}

\* t is s without its leading and trailing whitespace, nothing else changed.
Trimmed(t, s) ==
    /\ t = <<>> \/ (t[1] \notin Whitespace /\ t[Len(t)] \notin Whitespace)
    /\ \E a, b \in 0..Len(s) :
        /\ a + b <= Len(s)
        /\ t = SubSeq(s, a + 1, Len(s) - b)
        /\ \A k \in 1..a : s[k] \in Whitespace
        /\ \A k \in (Len(s) - b + 1)..Len(s) : s[k] \in Whitespace

\* Claim C18: after normalisation every textual value is its raw value with
\* the leading and trailing whitespace removed and nothing else changed, and
\* every field name is trimmed; an absent value stays absent.
C18_TextAndNamesTrimmed ==
    pc = "typed" =>
        /\ " category " \notin df.cols
        /\ \A i \in 1..Len(response) : \A o \in DOMAIN response[i] :
            StripName(o) \in df.cols
        /\ \A i \in Rows(df) : \A c \in TextCols \cap df.cols :
            LET raw == RawCell(i, c) IN
            IF raw.t = "str"
            THEN /\ df.rows[i][c].t = "str"
                 /\ Trimmed(df.rows[i][c].v, raw.v)
            ELSE df.rows[i][c] = raw

\* A padded description and a padded category under a padded field name, next
\* to a record without a category.
C18_Witness ==
    /\ pc = "typed"
    /\ \E i \in 1..Len(response) : " category " \in DOMAIN response[i]
    /\ \E i, j \in Rows(df) :
        /\ RawCell(i, "category") = Str(TravelPadded)
        /\ df.rows[i]["category"] = Str(Travel)
        /\ RawCell(i, "activity_description") = Str(UberPadded)
        /\ df.rows[i]["activity_description"] = Str(<<"U", "B", "E", "R">>)
        /\ i # j
        /\ RawCell(j, "category") = NA
        /\ df.rows[j]["category"] = NA

-----------------------------------------------------------------------------
(* Properties of the extraction *)

\* A document whose answer is an array of records.
WellFormed(doc) ==
    doc.k = "array" /\ \A i \in 1..Len(doc.v) : IsRecord(doc.v[i])

RECURSIVE RecordsOfWellFormed(_)
RecordsOfWellFormed(texts) ==
    IF texts = <<>> THEN <<>>
    ELSE RecordsOfWellFormed(SubSeq(texts, 1, Len(texts) - 1))
            \o (IF WellFormed(texts[Len(texts)]) THEN texts[Len(texts)].v ELSE <<>>)

\* Claim C19: a document whose extraction fails (the request raises, the
\* response is empty, is no JSON, or is no well-formed array of records)
\* contributes no record: the batch holds exactly the records of the other
\* documents, and the call ends without an exception.
C19_FailedDocumentContributesNothing ==
    (client = "ok" /\ pc # "start") =>
        /\ response = RecordsOfWellFormed(pdf_texts)
        /\ pc # "raised"
        /\ pc = "ready" => Len(df.rows) = Len(response)

NothingToExtract ==
    \/ pdf_texts = <<>>
    \/ client = "failed"
    \/ \A i \in 1..Len(pdf_texts) : pdf_texts[i] = ServiceError

-----------------------------------------------------------------------------
(* Properties of the stand-alone variant *)

MainMainReturned ==
    pc \in {"mm_done", "mm_no_response", "mm_decode_error",
            "mm_unexpected_structure", "mm_unexpected_error"}

\* Claim C13: a bad value in a field of one record aborts neither the record
\* nor the batch: the batch returned has as many records as the array
\* extracted, and the other fields are normalised whatever the bad one holds.
C13_BadFieldNeverAbortsBatch ==
    (MainMainReturned /\ response.k = "array") =>
        /\ pc = "mm_done"
        /\ Len(df.rows) = Len(response.v)
        /\ \A i \in Rows(df) :
            df.rows[i]["amount_spent"] = to_numeric(response.v[i]["amount_spent"])

\* Claim C14: date parsing never raises, and the normalised transaction_date
\* and posting_date are a valid calendar date or absent, whatever the raw
\* value is: missing, null, no text, or text that is no date.
C14_DateParsingNeverRaises ==
    /\ pc # "mm_unexpected_error"
    /\ pc = "mm_done" =>
        \A i \in Rows(df) : \A c \in DateCols \cap df.cols :
            LET v == df.rows[i][c] IN
            v = NA \/ (v.t = "ts" /\ ValidDate(v.v[1], v.v[2], v.v[3]))

-----------------------------------------------------------------------------
(* Order of the pipeline steps *)

\* The batch is waiting to be written after the whole pipeline acted on it.
Handed == pc = "deduped" /\ ~Empty(to_insert)

\* C21: in every run on a non-empty batch the Type Normalizer acts on the
\* frame built from the response, the Transaction Hasher acts next and reads
\* the normalised frame, the Running Balance Reconstructor acts after the
\* hasher, and deduplication and storage only ever follow the reconstructor.
C21_StepsRunInOrder ==
    [][/\ pc' = "typed" =>
            /\ pc = "framed"
            /\ df = DataFrame(response)
            /\ df' = apply_data_types(df)
       /\ pc' = "hashed" =>
            /\ pc = "typed"
            /\ df = apply_data_types(DataFrame(response))
            /\ df' = create_transaction_hash(df)
       /\ (pc' = "ready" /\ response # <<>>) =>
            /\ pc = "hashed"
            /\ pre' = create_transaction_hash(apply_data_types(DataFrame(response)))
            /\ df' \in calculate_running_credit(pre')
       /\ pc' = "loaded" => pc = "ready"
       /\ pc' = "deduped" => pc = "loaded" /\ to_insert' = dedup(df, Fingerprints(existing))
       /\ db' # db =>
            /\ Handed
            /\ df \in calculate_running_credit(pre)
            /\ \A i \in Rows(to_insert) :
                   \E j \in Rows(df) : to_insert.rows[i] = df.rows[j]]_vars

\* A batch of two records went through the three steps, the last of which
\* rewrote a balance, and is about to be written.
C21_Witness ==
    /\ Handed
    /\ Len(to_insert.rows) = 2
    /\ "TransactionHash" \in pre.cols
    /\ df # pre

-----------------------------------------------------------------------------
(* Storage: sign-in, ingestion and the batch write *)

\* A category one character longer than its column.
LongCategory == [i \in 1..CategoryWidth + 1 |-> "x"]

MaxStoreBatch == 2
MaxStoreRows == 3

\* An opening record, a record the Transactions table refuses, and a record
\* lacking three of the fields the INSERT names.
StorePool ==
    {Raw(Str(Jan05), Str(UberLower), Num(4500), Num(100000), Str(Travel), Bool(TRUE)),
     Raw(Str(Jan09), Str(Lyft), Num(12000), NA, Str(LongCategory), Bool(FALSE)),
     [transaction_date |-> Str(Jan03), activity_description |-> Str(Lyft),
      amount_spent |-> Num(-1)]}

\* Nobody signed in yet: both tables are empty.
InitStore ==
    /\ pc = "idle"
    /\ uid = 1
    /\ response = <<>>
    /\ df = EmptyFrame
    /\ pre = EmptyFrame
    /\ existing = EmptyFrame
    /\ to_insert = EmptyFrame
    /\ skipped = 0
    /\ db = <<>>
    /\ ledger = <<>>
    /\ pdf_texts = <<>>
    /\ client = "none"
    /\ given = EmptyFrame
    /\ users = <<>>
    /\ identity = 0
    /\ returned = NoCall

\* The signed-in user, whose UserID the last upsert_google_user returned,
\* uploads statements.
IngestStore ==
    /\ returned.user_id # 0
    /\ \E data \in SeqsUpTo(StorePool, MaxStoreBatch) :
        /\ Len(db) + Len(data) <= MaxStoreRows
        /\ Extract(returned.user_id, data)

NextStore ==
    \/ SignIn
    \/ IngestStore
    \/ Pipeline
    \/ LoadCorpus
    \/ Dedup
    \/ BulkInsert
    \/ Abort

SpecStore == InitStore /\ [][NextStore]_vars

SpecUsers == InitStore /\ [][UpsertGoogleUser]_vars

\* The batch about to be written holds a row the table refuses and a row it
\* accepts.
MixedBatch ==
    /\ pc = "deduped"
    /\ ~InsertRaises(to_insert)
    /\ \E i, j \in Rows(to_insert) :
        RowRefused(to_insert.rows[i]) /\ ~RowRefused(to_insert.rows[j])

\* The rows of the batch about to be written that the table accepts.
AcceptedRows ==
    LET accepted(r) == ~RowRefused(r) IN SelectSeq(to_insert.rows, accepted)

\* C22: a row that violates a constraint of the table is skipped alone:
\* the write of a batch holding such a row still appends every other row of
\* the batch for the user.
C22_RefusedRowIsSkippedAlone ==
    [][MixedBatch =>
          \A i \in 1..Len(AcceptedRows) :
              \E k \in (Len(db) + 1)..Len(db') :
                  /\ db'[k]["UserID"] = Whole(uid)
                  /\ \A c \in InsertCols :
                         db'[k][c] = SqlValue(c, AcceptedRows[i][c])]_vars

\* C23: the batch write is atomic: a step leaves the Transactions table as
\* it was, or it is the write of a batch and appends every row of the batch,
\* in order, for the user of the call.
C23_BatchWriteIsAllOrNothing ==
    [][\/ db' = db
       \/ /\ pc = "deduped"
          /\ Len(db') = Len(db) + Len(to_insert.rows)
          /\ SubSeq(db', 1, Len(db)) = db
          /\ \A i \in Rows(to_insert) :
                 /\ db'[Len(db) + i]["UserID"] = Whole(uid)
                 /\ db'[Len(db) + i]["TransactionID"] = Whole(Len(db) + i)
                 /\ \A c \in InsertCols :
                        db'[Len(db) + i][c] = SqlValue(c, to_insert.rows[i][c])]_vars

\* A batch of two rows, one of them refused, is about to be written.
C23_Witness ==
    /\ MixedBatch
    /\ Len(to_insert.rows) = 2
    /\ ~ExecuteRaises(users, uid, [to_insert EXCEPT !.rows = AcceptedRows])

\* C24: the persisted corpus only grows: whatever the step (sign-in,
\* pipeline, read of the corpus, batch write), the rows the table held
\* before are still there after it, unchanged and in place, so every user's
\* rows are kept.
C24_CorpusOnlyGrows ==
    [][/\ Len(db') >= Len(db)
       /\ \A k \in 1..Len(db) : db'[k] = db[k]
       /\ \A u \in 1..MaxIdentity :
              LET mine(r) == r["UserID"] = Whole(u) IN
              \A k \in 1..Len(SelectSeq(db, mine)) :
                  SelectSeq(db', mine)[k] = SelectSeq(db, mine)[k]]_vars

\* Two users each have a row: two batch writes took place, the second over
\* a table that already held a row.
C24_Witness ==
    /\ Len(db) = 2
    /\ db[1]["UserID"] # db[2]["UserID"]

-----------------------------------------------------------------------------
(* Effects on the caller's objects *)

\* C25: the Type Normalizer has no side effect: after apply_data_types
\* returned, the batch object it was called with has the field names, the
\* fields and the values it had before the call.
C25_NormalizerLeavesItsArgument ==
    [][(pc = "framed" /\ pc' \in {"typed", "raised"}) => given' = df]_vars

-----------------------------------------------------------------------------
(* Fingerprints of the returned records *)

\* The fields the fingerprint of a record is taken from, with the fingerprint.
Hashed(row) ==
    <<row["transaction_date"], row["activity_description"], row["amount_spent"],
      row["TransactionHash"]>>

\* C26: after convert_gemini_response_to_dataframe every returned record
\* carries the fingerprint of its own transaction_date, activity_description
\* and amount_spent, and its hashed fields and fingerprint are those of a
\* record that entered the balance step.
C26_HashStaysWithItsRecord ==
    (pc = "ready" /\ ~Empty(df)) =>
        /\ "TransactionHash" \in df.cols
        /\ \A i \in Rows(df) :
            /\ df.rows[i]["TransactionHash"] = Md5(hash_string(df.rows[i]))
            /\ \E j \in Rows(pre) : Hashed(df.rows[i]) = Hashed(pre.rows[j])

\* The sort moved a record to the first place and a balance was rewritten.
C26_Witness ==
    /\ pc = "ready"
    /\ Len(df.rows) >= 2
    /\ "TransactionHash" \in df.cols
    /\ df.rows[1]["TransactionHash"] # pre.rows[1]["TransactionHash"]
    /\ \E i \in Rows(df) :
        \A j \in Rows(pre) :
            df.rows[i]["available_credit"] # pre.rows[j]["available_credit"]

-----------------------------------------------------------------------------
(* The canonical string *)

\* The three components the canonical string of a record is built from.
Triple(row) == <<date_str(row), desc_str(row), amount_str(row)>>

\* The string digested into the fingerprint a record carries.
Canonical(row) == row["TransactionHash"].v

\* The description of a is that of b followed by '-', and the amount of b is
\* that of a preceded by '-'.
DashShift(a, b) ==
    /\ date_str(a) = date_str(b)
    /\ desc_str(a) = desc_str(b) \o <<"-">>
    /\ amount_str(b) = <<"-">> \o amount_str(a)

-----------------------------------------------------------------------------
(* Several balance snapshots in one batch *)

\* The positions of the rows that carry a known available_credit.
Known(rows) == {i \in 1..Len(rows) : notna(rows[i]["available_credit"])}

\* The first of a non-empty set of positions.
First(S) == CHOOSE i \in S : \A j \in S : i <= j

\* The returned records are the records of `sorted` in that order, and from
\* the first record of `sorted` with a known balance on every balance is that
\* one value minus the amounts present from there on, absent where the
\* record has no amount.
OpensAtFirstKnown(sorted) ==
    LET f == First(Known(sorted))
        B == sorted[f]["available_credit"].v
    IN  /\ CoreRows(df.rows) = CoreRows(sorted)
        /\ \A k \in f..Len(sorted) :
            df.rows[k]["available_credit"] =
                IF notna(sorted[k]["amount_spent"])
                THEN Num(B - SumPresent(sorted, f, k))
                ELSE NA

\* C28: when several records of the batch carry a known available_credit,
\* the opening balance is the value on the earliest of them in date order
\* (undated records last), and the balance of every later record is the
\* computed one, whatever snapshot the record carried.
C28_OnlyEarliestSnapshotOpens ==
    (pc = "ready" /\ HasCreditCols(pre) /\ Cardinality(Known(pre.rows)) >= 2) =>
        \E p \in Perms(Len(pre.rows)) :
            LET sorted == [i \in 1..Len(pre.rows) |-> pre.rows[p[i]]] IN
            SortedAscending(sorted) /\ OpensAtFirstKnown(sorted)

\* A batch with the snapshots 1000.00 and, on a later day, 500.00 came back
\* without the later snapshot.
C28_Witness ==
    /\ pc = "ready"
    /\ HasCreditCols(pre)
    /\ \E i, j \in Rows(pre) :
        /\ pre.rows[i]["available_credit"] = Num(100000)
        /\ pre.rows[j]["available_credit"] = Num(50000)
    /\ \A k \in Rows(df) : df.rows[k]["available_credit"] # Num(50000)

-----------------------------------------------------------------------------
(* Records without an amount *)

\* The positions from lo to k whose record has an amount.
WithAmount(rows, lo, k) == {j \in lo..k : notna(rows[j]["amount_spent"])}

\* The sum of the amounts of the records at the positions S.
RECURSIVE AmountsAt(_, _)
AmountsAt(rows, S) ==
    IF S = {} THEN 0
    ELSE LET j == First(S) IN rows[j]["amount_spent"].v + AmountsAt(rows, S \ {j})

\* From the opening record of `sorted` on, a record without amount comes
\* back without balance, and a record with an amount comes back with the
\* opening balance minus the amounts present from the opening record through
\* itself.
AbsentAmountsDropOut(sorted) ==
    LET f == First(Known(sorted))
        B == sorted[f]["available_credit"].v
    IN  \A k \in f..Len(sorted) :
            /\ Core(df.rows[k]) = Core(sorted[k])
            /\ ~notna(sorted[k]["amount_spent"]) =>
                   ~notna(df.rows[k]["available_credit"])
            /\ notna(sorted[k]["amount_spent"]) =>
                   df.rows[k]["available_credit"] =
                       Num(B - AmountsAt(sorted, WithAmount(sorted, f, k)))

\* C29: in a batch with a known balance and a record without amount, every
\* record at or after the opening record that has no amount ends without
\* available_credit and adds nothing to the balances after it.
C29_AbsentAmountGivesAbsentBalance ==
    ( /\ pc = "ready"
      /\ HasCreditCols(pre)
      /\ Known(pre.rows) # {}
      /\ \E i \in Rows(pre) : ~notna(pre.rows[i]["amount_spent"]) ) =>
        \E p \in Perms(Len(pre.rows)) :
            LET sorted == [i \in 1..Len(pre.rows) |-> pre.rows[p[i]]] IN
            SortedAscending(sorted) /\ AbsentAmountsDropOut(sorted)

\* A dated record without amount came back without balance between a record
\* with a balance before it and one after it.
C29_Witness ==
    /\ pc = "ready"
    /\ HasCreditCols(pre)
    /\ \E j, k, m \in Rows(df) :
        /\ j < k /\ k < m
        /\ notna(df.rows[j]["available_credit"])
        /\ notna(df.rows[k]["transaction_date"])
        /\ ~notna(df.rows[k]["amount_spent"])
        /\ ~notna(df.rows[k]["available_credit"])
        /\ notna(df.rows[m]["available_credit"])

-----------------------------------------------------------------------------
(* The Users table under upsert_google_user *)

\* The rows of a Users table that carry the email.
RowsOf(table, email) == {i \in 1..Len(table) : table[i].GoogleEmail = email}

\* C30: whatever calls of upsert_google_user were made, the Users table
\* holds at most one row per email and every row keeps its UserID and email;
\* a successful call returns the UserID of the one row with its email, which
\* for a known email is the row that was there, changed in display name and
\* picture at most, every other row untouched; a failed call leaves the table
\* as it was.
C30_UpsertKeepsOneRowPerEmail ==
    [][LET email == returned'.email
           user_id == returned'.user_id
       IN  /\ \A i, j \in 1..Len(users') :
                  users'[i].GoogleEmail = users'[j].GoogleEmail => i = j
           /\ Len(users') >= Len(users)
           /\ \A i \in 1..Len(users) :
                  /\ users'[i].UserID = users[i].UserID
                  /\ users'[i].GoogleEmail = users[i].GoogleEmail
                  /\ users'[i] # users[i] => (user_id # 0 /\ users[i].GoogleEmail = email)
           /\ user_id = 0 => users' = users
           /\ user_id # 0 =>
                  /\ \E i \in RowsOf(users', email) : users'[i].UserID = user_id
                  /\ RowsOf(users, email) # {} => Len(users') = Len(users)]_vars

\* Two users are registered and the last call, for the email of the first
\* of them, succeeded: it found the row and returned its UserID.
C30_Witness ==
    /\ Len(users) = 2
    /\ returned.email = users[1].GoogleEmail
    /\ returned.user_id = users[1].UserID
    /\ users[1].DisplayName # users[2].DisplayName

=============================================================================
